---- MODULE Spec2Model ----
(***************************************************************************)
(* Session runtime of the WebXR demo (src/src/init.js, second definition   *)
(* of init, lines 156-375): the module-level session accumulators, the     *)
(* per-frame step animate, the calorie estimate, and the event listeners   *)
(* init registers (controller connected/disconnected, sessionstart,        *)
(* resize).                                                                *)
(*                                                                         *)
(* Numbers.  Times are whole seconds.  Coordinates are stored in half      *)
(* metres (two units per metre), so that 1.5 m is the integer 3.           *)
(* Quotients (the calorie estimate, the camera aspect) are exact rationals *)
(* <<numerator, denominator>> in lowest terms; toFixed2 turns a rational   *)
(* into the number of hundredths that Number.prototype.toFixed(2) prints.  *)
(***************************************************************************)
EXTENDS Integers, Sequences, FiniteSets, TLC

\* ------------------------------------------------------------------ bounds
MaxElapsed == 21
MaxSkew == 1

\* Frame deltas the clock may return, and the extra time that may pass between
\* clock.getDelta() and clock.getElapsedTime().
Deltas == {0, 1, 10}
Gaps == {0, 1}
\* window.innerWidth / window.innerHeight values the browser may report.
WindowSizes == {<<4, 3>>, <<16, 9>>}
Handedness == {"left", "right"}
Grips == {0, 1}

\* --------------------------------------------------------- program constants
userHeight == 152
userWeight == 50
caloriesPerMinute == 8
LogInterval == 10

Origin == <<0, 0, 0>>
InitialPlayerPosition == <<0, 3, 100>>
SessionPlayerPosition == <<-54, -1, 80>>
InitialCameraPosition == <<-54, 3, 100>>

\* ----------------------------------------------------------------- numbers
RECURSIVE GCD(_, _)
GCD(a, b) == IF b = 0 THEN a ELSE GCD(b, a % b)

Abs(x) == IF x < 0 THEN -x ELSE x

\* The rational n/d (d > 0) in lowest terms.
Rat(n, d) ==
  LET g == GCD(Abs(n), d)
  IN  IF g = 0 THEN <<0, 1>> ELSE <<n \div g, d \div g>>

R(n) == <<n, 1>>
RMul(p, q) == Rat(p[1] * q[1], p[2] * q[2])
RDiv(p, q) == Rat(p[1] * q[2], p[2] * q[1])

\* x.toFixed(2) for x >= 0: the nearest number of hundredths, the larger one on
\* a tie.
toFixed2(q) == (2 * 100 * q[1] + q[2]) \div (2 * q[2])

calculateCaloriesBurned_WrongDivisor(weight, duration) ==
  RMul(RMul(RDiv(weight, R(10)), R(caloriesPerMinute)), duration)

calculateCaloriesBurned(weight, duration) ==
  RMul(RMul(RDiv(weight, R(100)), R(caloriesPerMinute)), duration)

\* Euclidean distance between two stored positions, in metres rounded down.
\* Used only to state what totalDistance is documented to track.
RECURSIVE SqrtFrom(_, _)
SqrtFrom(n, r) == IF (r + 1) * (r + 1) > n THEN r ELSE SqrtFrom(n, r + 1)
ISqrt(n) == SqrtFrom(n, 0)
Distance(p, q) ==
  ISqrt(((p[1] - q[1]) * (p[1] - q[1]) + (p[2] - q[2]) * (p[2] - q[2])
         + (p[3] - q[3]) * (p[3] - q[3])) \div 4)

\* ------------------------------------------------------------------- state
VARIABLES
  startTime, elapsedTime, lastLoggedTime, steps, totalDistance, previousPosition,
  playerPosition, cameraPosition, windowSize, cameraAspect, rendererSize,
  controllers, raySpaceVisible, gripSpaceVisible, inputSource,
  clockTime, console, frameTrace, onFrameCall,
  started, sumDeltas, allOnes, frameIn, sampled, pathLength, sameHand

sessionVars == <<startTime, elapsedTime, lastLoggedTime, steps, totalDistance,
                 previousPosition>>
sceneVars == <<playerPosition, cameraPosition>>
windowVars == <<windowSize, cameraAspect, rendererSize>>
controllerVars == <<controllers, raySpaceVisible, gripSpaceVisible, inputSource,
                    sameHand>>
frameVars == <<clockTime, console, frameTrace, onFrameCall,
               started, sumDeltas, allOnes, frameIn, sampled, pathLength>>
vars == <<sessionVars, sceneVars, windowVars, controllerVars, frameVars>>

\* Arguments handed to the caller's hook: the rendering context object, or a
\* number.
globals == [kind |-> "object", value |-> 0]
Number(x) == [kind |-> "number", value |-> x]

\* The JavaScript null reference.
null == <<>>

NoCall == [args |-> <<>>, elapsedTime |-> 0, lastLoggedTime |-> 0, logged |-> 0]

Init ==
  /\ startTime = 0
  /\ elapsedTime = 0
  /\ lastLoggedTime = 0
  /\ steps = 0
  /\ totalDistance = 0
  /\ previousPosition = Origin
  /\ playerPosition = InitialPlayerPosition
  /\ cameraPosition = InitialCameraPosition
  /\ windowSize = <<4, 3>>
  /\ cameraAspect = Rat(4, 3)
  /\ rendererSize = <<4, 3>>
  /\ controllers = [h \in Handedness |-> null]
  /\ raySpaceVisible = [i \in Grips |-> FALSE]
  /\ gripSpaceVisible = [i \in Grips |-> FALSE]
  /\ inputSource = [i \in Grips |-> "unattached"]
  /\ clockTime = 0
  /\ console = <<>>
  /\ frameTrace = <<>>
  /\ onFrameCall = NoCall
  /\ started = FALSE
  /\ sumDeltas = 0
  /\ allOnes = TRUE
  /\ frameIn = [delta |-> 0, time |-> 0]
  /\ sampled = Origin
  /\ pathLength = 0
  /\ sameHand = FALSE

\* ------------------------------------------------------- the per-frame step
\* The state animate reads and writes, as one record threaded through its
\* statements in source order.
Session ==
  [startTime |-> startTime, elapsedTime |-> elapsedTime,
   lastLoggedTime |-> lastLoggedTime, steps |-> steps,
   totalDistance |-> totalDistance, previousPosition |-> previousPosition,
   console |-> console, trace |-> <<>>, call |-> onFrameCall]

\* if (startTime === 0) { startTime = time; }
InitStartTime(s, time) ==
  IF s.startTime = 0 THEN [s EXCEPT !.startTime = time] ELSE s

IncElapsed_Assign(s, delta) == [s EXCEPT !.elapsedTime = delta]

IncElapsed_CountsSteps(s, delta) ==
  [s EXCEPT !.elapsedTime = @ + delta, !.steps = @ + 1]

\* elapsedTime += delta;
IncElapsed(s, delta) == [s EXCEPT !.elapsedTime = @ + delta]

\* The four console.log lines of one report.
Report(s) ==
  [elapsed |-> toFixed2(R(s.elapsedTime)),
   steps |-> s.steps,
   distance |-> toFixed2(R(s.totalDistance)),
   calories |-> toFixed2(calculateCaloriesBurned(R(userWeight),
                                                 RDiv(R(s.elapsedTime), R(60))))]

LogActivity_Strict(s) ==
  IF s.elapsedTime - s.lastLoggedTime > LogInterval
  THEN [s EXCEPT !.console = Append(@, Report(s)),
                 !.trace = Append(@, "log"),
                 !.lastLoggedTime = s.elapsedTime]
  ELSE s

LogActivity_KeepsLast(s) ==
  IF s.elapsedTime - s.lastLoggedTime >= LogInterval
  THEN [s EXCEPT !.console = Append(@, Report(s)),
                 !.trace = Append(@, "log")]
  ELSE s

\* if (elapsedTime - lastLoggedTime >= 10) { console.log(...) x4;
\*                                           lastLoggedTime = elapsedTime; }
LogActivity(s) ==
  IF s.elapsedTime - s.lastLoggedTime >= LogInterval
  THEN [s EXCEPT !.console = Append(@, Report(s)),
                 !.trace = Append(@, "log"),
                 !.lastLoggedTime = s.elapsedTime]
  ELSE s

CallOnFrame_DeltaFirst(s, delta, time) ==
  [s EXCEPT !.trace = Append(@, "onFrame"),
            !.call = [args |-> <<Number(delta), Number(time), globals>>,
                      elapsedTime |-> s.elapsedTime,
                      lastLoggedTime |-> s.lastLoggedTime,
                      logged |-> Len(s.console)]]

\* onFrame(globals, delta, time): the hook's arguments and the session state
\* as it stands when the hook runs.
CallOnFrame(s, delta, time) ==
  [s EXCEPT !.trace = Append(@, "onFrame"),
            !.call = [args |-> <<globals, Number(delta), Number(time)>>,
                      elapsedTime |-> s.elapsedTime,
                      lastLoggedTime |-> s.lastLoggedTime,
                      logged |-> Len(s.console)]]

\* renderer.render(scene, camera); renderer.setAnimationLoop(animate);
Render(s) == [s EXCEPT !.trace = Append(@, "render")]

animateBody(s, delta, time) ==
  Render(CallOnFrame(LogActivity(IncElapsed(InitStartTime(s, time), delta)),
                     delta, time))

animate ==
  \E delta \in Deltas, gap \in Gaps :
    LET time == clockTime + delta + gap
        s == animateBody(Session, delta, time)
    IN  /\ elapsedTime + delta <= MaxElapsed
        /\ time - (elapsedTime + delta) <= MaxSkew
        /\ clockTime' = time
        /\ startTime' = s.startTime
        /\ elapsedTime' = s.elapsedTime
        /\ lastLoggedTime' = s.lastLoggedTime
        /\ steps' = s.steps
        /\ totalDistance' = s.totalDistance
        /\ previousPosition' = s.previousPosition
        /\ console' = s.console
        /\ frameTrace' = s.trace
        /\ onFrameCall' = s.call
        /\ started' = TRUE
        /\ sumDeltas' = sumDeltas + delta
        /\ allOnes' = (allOnes /\ delta = 1)
        /\ frameIn' = [delta |-> delta, time |-> time]
        /\ pathLength' = IF ~started THEN 0
                         ELSE pathLength + Distance(sampled, playerPosition)
        /\ sampled' = playerPosition
        /\ UNCHANGED <<sceneVars, windowVars, controllerVars>>

\* ------------------------------------------------------------ the listeners
\* renderer.xr 'sessionstart'
sessionstart ==
  /\ playerPosition' = SessionPlayerPosition
  /\ cameraPosition' = Origin
  /\ UNCHANGED <<sessionVars, windowVars, controllerVars, frameVars>>

\* window 'resize', with the size the window has taken
onWindowResize ==
  \E size \in WindowSizes :
    /\ windowSize' = size
    /\ cameraAspect' = Rat(size[1], size[2])
    /\ rendererSize' = size
    /\ UNCHANGED <<sessionVars, sceneVars, controllerVars, frameVars>>

\* A reference to a controller object: null, or the one object it refers to.
ControllerEntry(i) ==
  <<[raySpace |-> i, gripSpace |-> i, mesh |-> i, gamepad |-> i]>>

\* gripSpace i 'connected': the runtime has attached an input source of some
\* handedness to controller index i.
connected(i) ==
  \E handedness \in Handedness :
    /\ inputSource[i] = "unattached"
    /\ inputSource' = [inputSource EXCEPT ![i] = handedness]
    /\ raySpaceVisible' = [raySpaceVisible EXCEPT ![i] = TRUE]
    /\ gripSpaceVisible' = [gripSpaceVisible EXCEPT ![i] = TRUE]
    /\ controllers' = [controllers EXCEPT ![handedness] = ControllerEntry(i)]
    /\ sameHand' = (sameHand \/ inputSource[1 - i] = handedness)
    /\ UNCHANGED <<sessionVars, sceneVars, windowVars, frameVars>>

disconnected_KeepsEntry(i) ==
  /\ inputSource[i] # "unattached"
  /\ inputSource' = [inputSource EXCEPT ![i] = "unattached"]
  /\ raySpaceVisible' = [raySpaceVisible EXCEPT ![i] = FALSE]
  /\ gripSpaceVisible' = [gripSpaceVisible EXCEPT ![i] = FALSE]
  /\ UNCHANGED <<controllers, sameHand>>
  /\ UNCHANGED <<sessionVars, sceneVars, windowVars, frameVars>>

\* gripSpace i 'disconnected': the event carries the input source that was
\* attached to controller index i.
disconnected(i) ==
  /\ inputSource[i] # "unattached"
  /\ inputSource' = [inputSource EXCEPT ![i] = "unattached"]
  /\ raySpaceVisible' = [raySpaceVisible EXCEPT ![i] = FALSE]
  /\ gripSpaceVisible' = [gripSpaceVisible EXCEPT ![i] = FALSE]
  /\ controllers' = [controllers EXCEPT ![inputSource[i]] = null]
  /\ UNCHANGED sameHand
  /\ UNCHANGED <<sessionVars, sceneVars, windowVars, frameVars>>

Connect == \E i \in Grips : connected(i)
Disconnect == \E i \in Grips : disconnected(i)

Next ==
  \/ animate
  \/ sessionstart
  \/ onWindowResize
  \/ Connect
  \/ Disconnect

Spec == Init /\ [][Next]_vars

\* ---------------------------------------------------------------- claims
\* A step of animate is the only step that changes a frame variable.
FrameStep == frameVars' # frameVars

LastReport == console[Len(console)]

\* C1: totalDistance after N frames is the sum of the Euclidean distances
\* between the player positions of consecutive frames, the first frame adding
\* nothing.
C1_TotalDistanceIsPathLength == totalDistance = pathLength

\* C2: elapsedTime after N frames is the sum of the deltas of those N frames,
\* and a frame never makes it smaller.
C2_ElapsedIsSumOfDeltas ==
  [][/\ elapsedTime = sumDeltas
     /\ elapsedTime' = sumDeltas'
     /\ elapsedTime' >= elapsedTime]_vars

C2_Witness == started /\ ~allOnes /\ elapsedTime = 12 /\ frameIn.delta = 1

\* C3: a frame emits a report exactly when elapsedTime, with the frame's delta
\* added, is at least 10 past lastLoggedTime; an emitting frame sets
\* lastLoggedTime to that elapsedTime and any other frame leaves it alone.
C3_ReportIffThreshold ==
  [][FrameStep =>
       LET e == elapsedTime + frameIn'.delta
       IN  IF e - lastLoggedTime >= 10
           THEN /\ Len(console') = Len(console) + 1
                /\ SubSeq(console', 1, Len(console)) = console
                /\ console'[Len(console')].elapsed = 100 * e
                /\ lastLoggedTime' = e
           ELSE /\ console' = console
                /\ lastLoggedTime' = lastLoggedTime]_vars

C3_Witness ==
  /\ Len(console) = 1
  /\ lastLoggedTime = 10
  /\ elapsedTime = 11
  /\ frameIn.delta = 1

\* C4: the first report comes at elapsedTime 10 or later and successive reports
\* are at least 10 seconds of elapsedTime apart; with frames of delta 1 only,
\* the tenth frame emits the one report there is until elapsedTime is 20.
C4_ReportsTenApart ==
  /\ \A i \in 1..Len(console) :
       /\ console[i].elapsed >= 1000
       /\ i > 1 => console[i].elapsed - console[i - 1].elapsed >= 1000
  /\ (started /\ allOnes) =>
       /\ elapsedTime < 10 => console = <<>>
       /\ (elapsedTime >= 10 /\ elapsedTime < 20) =>
            (Len(console) = 1 /\ console[1].elapsed = 1000)

C4_Witness == started /\ allOnes /\ elapsedTime = 20 /\ Len(console) = 2

\* C5: startTime is unset and nothing is reported before the first frame; the
\* first frame sets startTime to its absoluteTime and no later frame assigns it.
C5_StartTimeSetOnce ==
  [][/\ ~started => (startTime = 0 /\ console = <<>>)
     /\ FrameStep =>
          IF ~started THEN startTime' = frameIn'.time
          ELSE startTime' = startTime]_vars

\* C6: after every frame previousPosition is the player position of that
\* frame.
C6_PreviousPositionIsSampled == started => previousPosition = sampled

CalorieWeights == {50, 75, 100}
CalorieDurations ==
  {R(n) : n \in 0..MaxElapsed} \cup {RDiv(R(n), R(60)) : n \in 0..MaxElapsed}

\* (weight / 100) * 8 * duration, stated without the quotient.
CalorieFormula ==
  /\ \A w \in CalorieWeights, d \in CalorieDurations :
       LET c == calculateCaloriesBurned(R(w), d)
       IN  c[1] * 100 * d[2] = w * 8 * d[1] * c[2]
  /\ calculateCaloriesBurned(R(50), R(1)) = R(4)
  /\ calculateCaloriesBurned(R(100), R(10)) = R(80)

\* C8 as stated: calculateCaloriesBurned(w, d) = (w / 100) * 8 * d, and the
\* calorie figure of a report is calculateCaloriesBurned(50, elapsedTime / 60).
C8_ReportCaloriesExact ==
  /\ CalorieFormula
  /\ console # <<>> =>
       Rat(LastReport.calories, 100)
         = calculateCaloriesBurned(R(50), RDiv(R(lastLoggedTime), R(60)))

\* C8 as amended: calculateCaloriesBurned(w, d) = (w / 100) * 8 * d, and the
\* calorie figure of a report is (50 / 100) * 8 * (elapsedTime / 60) rounded to
\* two decimal places.
C8_ReportCaloriesRounded ==
  /\ CalorieFormula
  /\ console # <<>> =>
       LET c == LastReport.calories
           x == 8 * 50 * lastLoggedTime
       IN  60 * c - x > -30 /\ 60 * c - x <= 30

C8_Witness == console # <<>> /\ lastLoggedTime = 10 /\ LastReport.calories = 67

GripConnected(h) == \E i \in Grips : gripSpaceVisible[i] /\ inputSource[i] = h

\* C10 as stated: under any interleaving of connected and disconnected events
\* on the two grip spaces, controllers[h] is non-null exactly when some grip
\* space is connected with handedness h, and a non-null controllers[h] refers
\* to a visible grip space.
C10_ControllersMirrorGrips ==
  \A h \in Handedness :
    /\ controllers[h] # null <=> GripConnected(h)
    /\ controllers[h] # null => gripSpaceVisible[controllers[h][1].gripSpace]

\* C10 as amended: a non-null controllers[h] refers to a visible grip space
\* connected with handedness h; and controllers[h] is non-null whenever some
\* grip space is connected with handedness h, as long as the two grip spaces
\* have never been connected with the same handedness at the same time.
C10_ControllersTrackDistinctHands ==
  \A h \in Handedness :
    /\ controllers[h] # null =>
         LET g == controllers[h][1].gripSpace
         IN  gripSpaceVisible[g] /\ raySpaceVisible[g] /\ inputSource[g] = h
    /\ ~sameHand => (GripConnected(h) => controllers[h] # null)

C10_Witness ==
  /\ ~sameHand
  /\ controllers["left"] # null
  /\ controllers["left"][1].gripSpace = 1
  /\ controllers["right"] # null
  /\ controllers["right"][1].gripSpace = 0

====
